---- MODULE Spec2Model ----
(***************************************************************************)
(* A model of the tubereng engine core: the Engine frame driver            *)
(* (tubereng_engine), the CommandQueue and its commands (tubereng_ecs),     *)
(* Transform / TransformCache (tubereng_core) and the transform            *)
(* propagation system compute_effective_transforms_system.                 *)
(*                                                                         *)
(* The Ecs storage, the relationship graph, the scheduler and the matrix   *)
(* primitives live in crates whose sources are not part of src/; they are  *)
(* modelled from their documented contract (sections 3, 4.1, 4.2, 4.4 of   *)
(* the specification).                                                     *)
(***************************************************************************)
EXTENDS Integers, Sequences, FiniteSets, TLC

(***************************************************************************)
(* Bounds of the model.                                                    *)
(***************************************************************************)
\* Entity ids are 0 .. MaxEntities-1: Insert stops when the counter is there.
MaxEntities == 3
\* Direct calls on the Ecs made in one behaviour of SpecEcs (runs of the
\* propagation system included).
MaxOps == 6
\* Queue calls and Transform writes the user's systems make in one behaviour.
MaxIssued == 4
\* The same, in a behaviour in which the renderer has been initialised.
MaxIssuedRendering == 3
\* TransformCache::set calls made in a behaviour of SpecCache.
MaxSets == 3
\* Steps of 0.001 move_player moves the Player away from the origin.
MaxMove == 2

EntityIds == 0 .. (MaxEntities - 1)

(***************************************************************************)
(* Matrix4f: 4x4 matrices, row major, m[i][j] with i the row.  The          *)
(* translation sits in column 4 (value[0][3], value[1][3], value[2][3] in  *)
(* the 0-based source).                                                    *)
(***************************************************************************)
Idx == 1 .. 4

Identity ==
    << <<1, 0, 0, 0>>,
       <<0, 1, 0, 0>>,
       <<0, 0, 1, 0>>,
       <<0, 0, 0, 1>> >>

Mul(a, b) ==
    [i \in Idx |->
        [j \in Idx |->
            a[i][1] * b[1][j] + a[i][2] * b[2][j]
          + a[i][3] * b[3][j] + a[i][4] * b[4][j]]]

NewScale(s) ==
    << <<s[1], 0, 0, 0>>,
       <<0, s[2], 0, 0>>,
       <<0, 0, s[3], 0>>,
       <<0, 0, 0, 1>> >>

NewTranslation(t) ==
    << <<1, 0, 0, t[1]>>,
       <<0, 1, 0, t[2]>>,
       <<0, 0, 1, t[3]>>,
       <<0, 0, 0, 1>> >>

\* Quaternions are taken from two values: the unit quaternion (no rotation,
\* Transform::default) and the quarter turn about the z axis.
RotationMatrix(q) ==
    IF q = "quarter_z"
    THEN << <<0, -1, 0, 0>>,
            <<1, 0, 0, 0>>,
            <<0, 0, 1, 0>>,
            <<0, 0, 0, 1>> >>
    ELSE Identity

\* The translation column of a matrix (Transform::from reads it this way).
TranslationOf(m) == << m[1][4], m[2][4], m[3][4] >>

(***************************************************************************)
(* Transform (tubereng_core).                                              *)
(***************************************************************************)
NoRotation == "unit"
UnitScale == <<1, 1, 1>>

MkTransform(t, s, r) == [translation |-> t, scale |-> s, rotation |-> r]

\* Transform::as_matrix4, mutated: the translation is dropped.
AsMatrix4NoTranslation(tr) ==
    Mul(NewScale(tr.scale), RotationMatrix(tr.rotation))

\* Transform::as_matrix4: scale * translation * rotation.
AsMatrix4(tr) ==
    Mul(Mul(NewScale(tr.scale), NewTranslation(tr.translation)),
        RotationMatrix(tr.rotation))

\* The Transform values entities are given in the model.
TransformPool ==
    { MkTransform(<<1, 0, 0>>, UnitScale, NoRotation),
      MkTransform(<<0, 1, 0>>, UnitScale, NoRotation),
      MkTransform(<<2, 0, 0>>, <<2, 2, 2>>, "quarter_z") }

\* Option values: None, Some(x) and unwrap.
None == << >>
Some(x) == << x >>
Unwrap(o) == o[1]

(***************************************************************************)
(* State.                                                                  *)
(***************************************************************************)
VARIABLES
    \* Storage (tubereng_ecs)
    entities,          \* ids of the alive entities
    transform,         \* the component row of an id: None, or its Transform
                       \* followed by the marker components of its bundle
    dirty,             \* ids whose Transform is dirty in this frame
    next_entity_id,    \* the allocation counter
    child_of,          \* the ChildOf graph: a set of <<child, parent>> edges
    relationships,     \* the registered relationship kinds
    resources,         \* the types of the resources present
    \* TransformCache.transform_matrices: id -> Matrix4f or None (no entry)
    cache,
    \* compute_effective_transforms_system: its position and its two work lists
    prop_pc,
    to_visit,
    dirty_transform_entities,
    \* "none", or the message of the panic that ended the program
    panic,
    \* History of the propagation runs
    written,           \* ids whose cache entry the current / last run has set
    write_log,         \* the ids the running system has set, in the order of the sets
    first_cache,       \* the cache after the first run since the last change
    runs,              \* runs completed since the last change of the storage
    ops,               \* direct Ecs calls / calls of the user's systems so far
    \* Engine (tubereng_engine)
    init_system,       \* the init system: the user's, or system::Noop
    init_system_ran,
    pc,                \* the position of Engine::update
    stage,             \* run_systems: the stage and the system in turn
    sys_idx,
    systems,           \* the schedule: stage -> the systems registered
    \* CommandQueue (tubereng_ecs::commands)
    queue,             \* the Vec of the queue handed to the running systems
    pending,           \* what is left of the iterator into_iter returned
    \* History of the frame
    frame_kind,        \* "none" before the first update, "first", "later"
    frame_log,         \* what the current update has done so far, in order
    init_runs,         \* executions of the init system
    last_cleared,      \* the flags the last clear_dirty_flags reset
    issued,            \* the commands issued on the current queue, in order
    drained,           \* the commands the current drain has applied, in order
    pre_entities,      \* the alive entities when the current drain began
    pre_next,          \* the allocation counter when the current drain began
    \* Renderer (tubereng_renderer) and input
    render_graph,      \* RenderGraph: the passes, in the order they were added
    frame_ctx,         \* FrameRenderingContext: the fields that are Some
    input_state,       \* InputState: the keys held down
    \* History of the calls made on a TransformCache
    cache_calls,       \* the set calls so far, in order: << id, matrix >>
    got                \* the last get call: None, or Some(<< id, result >>)

storage_vars ==
    << entities, transform, dirty, next_entity_id, child_of, relationships,
       resources >>
prop_vars == << prop_pc, to_visit, dirty_transform_entities >>
hist_vars == << written, write_log, first_cache, runs >>
engine_vars == << init_system, init_system_ran, pc, stage, sys_idx >>
queue_vars == << queue, pending >>
frame_vars ==
    << frame_kind, frame_log, init_runs, last_cleared, issued, drained,
       pre_entities, pre_next >>
render_vars == << render_graph, frame_ctx >>
cache_hist == << cache_calls, got >>
\* The renderer's resources, the InputState and the TransformCache history.
rest_vars == << render_vars, input_state, cache_hist >>
vars ==
    << storage_vars, cache, prop_vars, panic, hist_vars, ops, engine_vars,
       systems, queue_vars, frame_vars, rest_vars >>
\* What neither the propagation system nor a direct Ecs call touches.
engine_side == << engine_vars, systems, queue_vars, frame_vars, rest_vars >>

NoRun == None
EmptyCache == [id \in EntityIds |-> None]
NoTransforms == [id \in EntityIds |-> None]

(***************************************************************************)
(* RelationshipGraph queries (ChildOf: an edge points child -> parent).    *)
(***************************************************************************)
\* successors(id): the direct parents of id.
Successors(id) == { e[2] : e \in { x \in child_of : x[1] = id } }

\* sources(id): the direct children of id.
Sources(id) == { e[1] : e \in { x \in child_of : x[2] = id } }

\* leaves(n): the ids below n with no outgoing edge (no recorded parent),
\* in the order of the scan of 0 .. n-1.
RECURSIVE Leaves(_)
Leaves(n) ==
    IF n = 0
    THEN << >>
    ELSE IF Successors(n - 1) = {}
         THEN Append(Leaves(n - 1), n - 1)
         ELSE Leaves(n - 1)

\* The parents of the parents ... of the ids of S, k levels up at most.
RECURSIVE Up(_, _)
Up(S, k) ==
    IF k = 0 \/ S = {}
    THEN {}
    ELSE LET P == UNION { Successors(id) : id \in S }
         IN  P \cup Up(P, k - 1)

\* ancestors(id): the transitive parents of id.
Ancestors(id) == Up({id}, MaxEntities)

\* The transitive children of the ids of S.
RECURSIVE Down(_, _)
Down(S, k) ==
    IF k = 0 \/ S = {}
    THEN {}
    ELSE LET C == UNION { Sources(id) : id \in S }
         IN  C \cup Down(C, k - 1)

Descendants(id) == Down({id}, MaxEntities)

\* The orders in which a collection of ids can be iterated.
Orders(S) ==
    { s \in [1 .. Cardinality(S) -> S] : \A a \in S : \E i \in DOMAIN s : s[i] = a }

(***************************************************************************)
(* Storage operations.                                                     *)
(***************************************************************************)
\* dirty_state::<Transform>(id)
DirtyState(id) == id \in dirty

\* component::<Transform>(id): Some(transform) or None
Component(id) == IF id \in EntityIds THEN transform[id] ELSE None

\* TransformCache::get: the entry, or the identity matrix.
CacheGet(id) == IF cache[id] = None THEN Identity ELSE Unwrap(cache[id])

\* TransformCache::set, mutated: an entry that is present is kept.
CacheSetKeepFirst(c, id, m) ==
    IF c[id] = None THEN [c EXCEPT ![id] = Some(m)] ELSE c

\* TransformCache::set on the map c.
CacheSet(c, id, m) == [c EXCEPT ![id] = Some(m)]

(***************************************************************************)
(* compute_effective_transforms_system.                                    *)
(***************************************************************************)
ExpectTransformCache == "A TransformCache resource should be present"
UnwrapOnNone == "called Option::unwrap() on a None value"

\* The matrix the recompute loop multiplies in for one parent: the matrix
\* of the parent's own Transform, the identity when it has none.
ParentMatrix(parent) ==
    IF Component(parent) = None
    THEN Identity
    ELSE AsMatrix4(Unwrap(Component(parent)))

\* matrix = parent_matrix * matrix, for the parents in iteration order.
RECURSIVE FoldParents(_, _)
FoldParents(matrix, parents) ==
    IF parents = << >>
    THEN matrix
    ELSE FoldParents(Mul(ParentMatrix(Head(parents)), matrix), Tail(parents))

\* The recompute loop, mutated: the parents are not multiplied in.
EffectiveMatrixLocalOnly(id, parents) == AsMatrix4(Unwrap(Component(id)))

\* The recompute loop, mutated: the new value builds on the cached one.
EffectiveMatrixOnCached(id, parents) ==
    Mul(CacheGet(id), FoldParents(AsMatrix4(Unwrap(Component(id))), parents))

\* The recompute loop, mutated: the fold starts from the identity instead of
\* the entity's own matrix.
EffectiveMatrixFromIdentity(id, parents) == FoldParents(Identity, parents)

\* The matrix the recompute loop stores for id (its Transform is present).
EffectiveMatrix(id, parents) ==
    FoldParents(AsMatrix4(Unwrap(Component(id))), parents)

\* The children the recompute loop pushes, mutated: only the dirty ones.
CascadeDirtyOnly(id) == { c \in Sources(id) : DirtyState(c) }

\* The children the recompute loop pushes after it has stored id's matrix.
Cascade(id) == Sources(id)

\* The entry of the system, were the check for the ChildOf graph left out.
PropEnterUnchecked ==
    /\ written' = {}
    /\ write_log' = << >>
    /\ dirty_transform_entities' = << >>
    /\ prop_pc' = "visit"
    /\ to_visit' = Leaves(next_entity_id)

\* The system is entered: without a ChildOf graph it returns at once,
\* otherwise the visit list is seeded with the leaves.
PropEnter ==
    /\ written' = {}
    /\ write_log' = << >>
    /\ dirty_transform_entities' = << >>
    /\ IF "ChildOf" \notin relationships
       THEN /\ prop_pc' = "returned"
            /\ to_visit' = << >>
       ELSE /\ prop_pc' = "visit"
            /\ to_visit' = Leaves(next_entity_id)

\* The visit loop, were the dirty flag not consulted: every visited entity is
\* recorded with its ancestors.
PropVisitEveryEntity ==
    /\ prop_pc = "visit" /\ panic = "none"
    /\ to_visit # << >>
    /\ LET entity_to_visit == to_visit[Len(to_visit)]
           rest == SubSeq(to_visit, 1, Len(to_visit) - 1)
       IN  /\ \E anc \in Orders(Ancestors(entity_to_visit)) :
                dirty_transform_entities' =
                    Append(dirty_transform_entities, entity_to_visit) \o anc
           /\ to_visit' = rest
    /\ UNCHANGED << storage_vars, cache, prop_pc, panic, hist_vars, ops >>
    /\ UNCHANGED engine_side

\* The visit loop, were a clean entity dropped without its children being
\* queued for a visit.
PropVisitNoDescend ==
    /\ prop_pc = "visit" /\ panic = "none"
    /\ to_visit # << >>
    /\ LET entity_to_visit == to_visit[Len(to_visit)]
           rest == SubSeq(to_visit, 1, Len(to_visit) - 1)
       IN  IF DirtyState(entity_to_visit)
           THEN /\ \E anc \in Orders(Ancestors(entity_to_visit)) :
                     dirty_transform_entities' =
                         Append(dirty_transform_entities, entity_to_visit) \o anc
                /\ to_visit' = rest
           ELSE /\ to_visit' = rest
                /\ UNCHANGED dirty_transform_entities
    /\ UNCHANGED << storage_vars, cache, prop_pc, panic, hist_vars, ops >>
    /\ UNCHANGED engine_side

\* One turn of the visit loop.
PropVisit ==
    /\ prop_pc = "visit" /\ panic = "none"
    /\ to_visit # << >>
    /\ LET entity_to_visit == to_visit[Len(to_visit)]
           rest == SubSeq(to_visit, 1, Len(to_visit) - 1)
       IN  IF DirtyState(entity_to_visit)
           THEN /\ \E anc \in Orders(Ancestors(entity_to_visit)) :
                     dirty_transform_entities' =
                         Append(dirty_transform_entities, entity_to_visit) \o anc
                /\ to_visit' = rest
           ELSE /\ \E children \in Orders(Sources(entity_to_visit)) :
                     to_visit' = rest \o children
                /\ UNCHANGED dirty_transform_entities
    /\ UNCHANGED << storage_vars, cache, prop_pc, panic, hist_vars, ops >>
    /\ UNCHANGED engine_side

\* The borrow, were a missing TransformCache passed over in silence: the
\* system goes on to its recompute loop.
PropBorrowCacheSilent ==
    /\ prop_pc = "visit" /\ panic = "none"
    /\ to_visit = << >>
    /\ prop_pc' = "recompute" /\ UNCHANGED panic
    /\ UNCHANGED << storage_vars, cache, to_visit, dirty_transform_entities,
                    hist_vars, ops >>
    /\ UNCHANGED engine_side

\* The visit loop has ended: the TransformCache resource is borrowed.
PropBorrowCache ==
    /\ prop_pc = "visit" /\ panic = "none"
    /\ to_visit = << >>
    /\ IF "TransformCache" \in resources
       THEN prop_pc' = "recompute" /\ UNCHANGED panic
       ELSE panic' = ExpectTransformCache /\ UNCHANGED prop_pc
    /\ UNCHANGED << storage_vars, cache, to_visit, dirty_transform_entities,
                    hist_vars, ops >>
    /\ UNCHANGED engine_side

\* The recompute loop, were the list a queue served from its front and the
\* children of a stored entity not pushed.
PropRecomputeFromFront ==
    /\ prop_pc = "recompute" /\ panic = "none"
    /\ dirty_transform_entities # << >>
    /\ LET entity_id == Head(dirty_transform_entities)
           rest == Tail(dirty_transform_entities)
       IN  IF Component(entity_id) = None
           THEN /\ panic' = UnwrapOnNone
                /\ UNCHANGED << cache, dirty_transform_entities, written,
                                write_log >>
           ELSE /\ \E parents \in Orders(Successors(entity_id)) :
                     cache' = CacheSet(cache, entity_id,
                                       EffectiveMatrix(entity_id, parents))
                /\ dirty_transform_entities' = rest
                /\ written' = written \cup {entity_id}
                /\ write_log' = Append(write_log, entity_id)
                /\ UNCHANGED panic
    /\ UNCHANGED << storage_vars, prop_pc, to_visit, first_cache, runs, ops >>
    /\ UNCHANGED engine_side

\* One turn of the recompute loop.
PropRecompute ==
    /\ prop_pc = "recompute" /\ panic = "none"
    /\ dirty_transform_entities # << >>
    /\ LET entity_id == dirty_transform_entities[Len(dirty_transform_entities)]
           rest == SubSeq(dirty_transform_entities, 1,
                          Len(dirty_transform_entities) - 1)
       IN  IF Component(entity_id) = None
           THEN /\ panic' = UnwrapOnNone
                /\ UNCHANGED << cache, dirty_transform_entities, written,
                                write_log >>
           ELSE /\ \E parents \in Orders(Successors(entity_id)) :
                     cache' = CacheSet(cache, entity_id,
                                       EffectiveMatrix(entity_id, parents))
                /\ \E children \in Orders(Cascade(entity_id)) :
                     dirty_transform_entities' = rest \o children
                /\ written' = written \cup {entity_id}
                /\ write_log' = Append(write_log, entity_id)
                /\ UNCHANGED panic
    /\ UNCHANGED << storage_vars, prop_pc, to_visit, first_cache, runs, ops >>
    /\ UNCHANGED engine_side

\* The recompute loop has ended: the system returns.
PropLeave ==
    /\ prop_pc = "recompute" /\ panic = "none"
    /\ dirty_transform_entities = << >>
    /\ prop_pc' = "returned"
    /\ UNCHANGED << storage_vars, cache, to_visit, dirty_transform_entities,
                    panic, hist_vars, ops >>
    /\ UNCHANGED engine_side

\* The history after a run that returned, and after a change of the storage.
HistOnReturn ==
    /\ runs' = runs + 1
    /\ first_cache' = IF first_cache = NoRun THEN Some(cache) ELSE first_cache
    /\ write_log' = << >>
    /\ UNCHANGED written

HistOnChange ==
    /\ runs' = 0
    /\ first_cache' = NoRun
    /\ UNCHANGED << written, write_log >>

(***************************************************************************)
(* Ecs / Storage: insert, delete, relationships, component_mut,            *)
(* clear_dirty_flags.                                                      *)
(***************************************************************************)
\* The entity definitions (bundles) inserted: without or with a Transform.
Bundles == {None} \cup { Some(t) : t \in TransformPool }

\* Ecs::insert, mutated: the stored components are not marked dirty.
StorageInsertClean(bundle) ==
    /\ entities' = entities \cup {next_entity_id}
    /\ transform' = [transform EXCEPT ![next_entity_id] = bundle]
    /\ next_entity_id' = next_entity_id + 1
    /\ UNCHANGED << dirty, child_of, relationships, resources >>

\* Ecs::insert, mutated: the allocation counter is not advanced.
StorageInsertSameId(bundle) ==
    /\ entities' = entities \cup {next_entity_id}
    /\ transform' = [transform EXCEPT ![next_entity_id] = bundle]
    /\ dirty' = IF bundle = None THEN dirty ELSE dirty \cup {next_entity_id}
    /\ UNCHANGED << next_entity_id, child_of, relationships, resources >>

\* Ecs::insert: the next id is allocated, the components of the bundle are
\* stored and each stored component is marked dirty.
StorageInsert(bundle) ==
    /\ entities' = entities \cup {next_entity_id}
    /\ transform' = [transform EXCEPT ![next_entity_id] = bundle]
    /\ dirty' = IF bundle = None THEN dirty ELSE dirty \cup {next_entity_id}
    /\ next_entity_id' = next_entity_id + 1
    /\ UNCHANGED << child_of, relationships, resources >>

\* Ecs::delete: the id leaves every component table and every relationship
\* graph (with its incident edges); an absent id is not an error.  The
\* contract of delete does not name the dirty sets: they are left as they are.
StorageDelete(id) ==
    /\ entities' = entities \ {id}
    /\ transform' = [e \in EntityIds |-> IF e = id THEN None ELSE transform[e]]
    /\ child_of' = { e \in child_of : e[1] # id /\ e[2] # id }
    /\ UNCHANGED << dirty, next_entity_id, relationships, resources >>

\* Ecs::insert_resource
StorageInsertResource(r) ==
    /\ resources' = resources \cup {r}
    /\ UNCHANGED << entities, transform, dirty, next_entity_id, child_of,
                    relationships >>

\* Ecs::clear_dirty_flags
StorageClearDirtyFlags ==
    /\ dirty' = {}
    /\ UNCHANGED << entities, transform, next_entity_id, child_of,
                    relationships, resources >>

Idle == prop_pc = "off" /\ panic = "none" /\ pc = "ecs"

EcsInsert ==
    /\ Idle /\ ops < MaxOps
    /\ next_entity_id < MaxEntities
    /\ \E bundle \in Bundles : StorageInsert(bundle)
    /\ HistOnChange
    /\ ops' = ops + 1
    /\ UNCHANGED << cache, prop_vars, panic >>
    /\ UNCHANGED engine_side

EcsDelete ==
    /\ Idle /\ ops < MaxOps
    /\ \E id \in 0 .. MaxEntities : StorageDelete(id)
    /\ HistOnChange
    /\ ops' = ops + 1
    /\ UNCHANGED << cache, prop_vars, panic >>
    /\ UNCHANGED engine_side

\* A ChildOf edge child -> parent between two alive entities; a child has
\* one parent and the graph stays a forest.
EcsInsertRelationship ==
    /\ Idle /\ ops < MaxOps
    /\ "ChildOf" \in relationships
    /\ \E child \in entities, parent \in entities :
          /\ child # parent
          /\ Successors(child) = {}
          /\ parent \notin Descendants(child)
          /\ child_of' = child_of \cup { << child, parent >> }
    /\ HistOnChange
    /\ ops' = ops + 1
    /\ UNCHANGED << entities, transform, dirty, next_entity_id, relationships,
                    resources, cache, prop_vars, panic >>
    /\ UNCHANGED engine_side

\* component_mut::<Transform>(id): the value is replaced, the flag is set.
EcsMutateTransform ==
    /\ Idle /\ ops < MaxOps
    /\ \E id \in entities, t \in TransformPool :
          /\ transform[id] # None
          /\ transform' = [transform EXCEPT ![id] = Some(t)]
          /\ dirty' = dirty \cup {id}
    /\ HistOnChange
    /\ ops' = ops + 1
    /\ UNCHANGED << entities, next_entity_id, child_of, relationships,
                    resources, cache, prop_vars, panic >>
    /\ UNCHANGED engine_side

EcsClearDirtyFlags ==
    /\ Idle /\ ops < MaxOps
    /\ dirty # {}
    /\ StorageClearDirtyFlags
    /\ HistOnChange
    /\ ops' = ops + 1
    /\ UNCHANGED << cache, prop_vars, panic >>
    /\ UNCHANGED engine_side

\* The propagation system is run on the storage.
EcsRunSystem ==
    /\ Idle /\ ops < MaxOps
    /\ PropEnter
    /\ ops' = ops + 1
    /\ UNCHANGED << storage_vars, cache, panic, first_cache, runs >>
    /\ UNCHANGED engine_side

EcsSystemReturned ==
    /\ prop_pc = "returned" /\ panic = "none" /\ pc = "ecs"
    /\ prop_pc' = "off"
    /\ HistOnReturn
    /\ UNCHANGED << storage_vars, cache, to_visit, dirty_transform_entities,
                    panic, ops >>
    /\ UNCHANGED engine_side

\* An Ecs as a caller sets it up: the ChildOf relationship defined or not,
\* the TransformCache resource inserted or not.
InitEcs ==
    /\ entities = {}
    /\ transform = NoTransforms
    /\ dirty = {}
    /\ next_entity_id = 0
    /\ child_of = {}
    /\ relationships \in { {}, {"ChildOf"} }
    /\ resources \in { {}, {"TransformCache"} }
    /\ cache = EmptyCache
    /\ prop_pc = "off"
    /\ to_visit = << >>
    /\ dirty_transform_entities = << >>
    /\ panic = "none"
    /\ written = {}
    /\ write_log = << >>
    /\ first_cache = NoRun
    /\ runs = 0
    /\ ops = 0
    /\ init_system = "Noop"
    /\ init_system_ran = FALSE
    /\ pc = "ecs"
    /\ stage = 1
    /\ sys_idx = 1
    /\ systems = << << >>, << >>, << >> >>
    /\ queue = << >>
    /\ pending = << >>
    /\ frame_kind = "none"
    /\ frame_log = << >>
    /\ init_runs = 0
    /\ last_cleared = {}
    /\ issued = << >>
    /\ drained = << >>
    /\ pre_entities = {}
    /\ pre_next = 0
    /\ render_graph = << >>
    /\ frame_ctx = {}
    /\ input_state = {}
    /\ cache_calls = << >>
    /\ got = None

NextEcs ==
    \/ EcsInsert
    \/ EcsDelete
    \/ EcsInsertRelationship
    \/ EcsMutateTransform
    \/ EcsClearDirtyFlags
    \/ EcsRunSystem
    \/ PropVisit
    \/ PropBorrowCache
    \/ PropRecompute
    \/ PropLeave
    \/ EcsSystemReturned

SpecEcs == InitEcs /\ [][NextEcs]_vars

(***************************************************************************)
(* TransformCache on its own: any sequence of set and get calls.           *)
(***************************************************************************)
\* The matrices passed to set.
CacheMatrices == { Identity } \cup { AsMatrix4(t) : t \in TransformPool }

\* TransformCache::set(id, m) is called.
TransformCacheSet ==
    /\ pc = "cache"
    /\ Len(cache_calls) < MaxSets
    /\ \E id \in EntityIds, m \in CacheMatrices :
          /\ cache' = CacheSet(cache, id, m)
          /\ cache_calls' = Append(cache_calls, << id, m >>)
    /\ UNCHANGED << storage_vars, prop_vars, panic, hist_vars, ops, engine_vars,
                    systems, queue_vars, frame_vars, render_vars, input_state,
                    got >>

\* TransformCache::get(id) is called: it takes &self and returns a copy.
TransformCacheGet ==
    /\ pc = "cache"
    /\ \E id \in EntityIds : got' = Some(<< id, CacheGet(id) >>)
    /\ UNCHANGED << storage_vars, cache, prop_vars, panic, hist_vars, ops,
                    engine_vars, systems, queue_vars, frame_vars, render_vars,
                    input_state, cache_calls >>

\* TransformCache::new(): no entry.
InitCache ==
    /\ entities = {} /\ transform = NoTransforms /\ dirty = {}
    /\ next_entity_id = 0 /\ child_of = {}
    /\ relationships = {} /\ resources = {}
    /\ cache = EmptyCache
    /\ prop_pc = "off" /\ to_visit = << >> /\ dirty_transform_entities = << >>
    /\ panic = "none"
    /\ written = {} /\ write_log = << >> /\ first_cache = NoRun
    /\ runs = 0 /\ ops = 0
    /\ init_system = "Noop" /\ init_system_ran = FALSE
    /\ pc = "cache" /\ stage = 1 /\ sys_idx = 1
    /\ systems = << << >>, << >>, << >> >>
    /\ queue = << >> /\ pending = << >>
    /\ frame_kind = "none" /\ frame_log = << >> /\ init_runs = 0
    /\ last_cleared = {} /\ issued = << >> /\ drained = << >>
    /\ pre_entities = {} /\ pre_next = 0
    /\ render_graph = << >> /\ frame_ctx = {} /\ input_state = {}
    /\ cache_calls = << >> /\ got = None

NextCache ==
    \/ TransformCacheSet
    \/ TransformCacheGet

SpecCache == InitCache /\ [][NextCache]_vars

(***************************************************************************)
(* CommandQueue and the commands (tubereng_ecs::commands).                 *)
(***************************************************************************)
Update == 1
Render == 2
FinalizeRender == 3
Stages == { Update, Render, FinalizeRender }

PropSystem == "compute_effective_transforms_system"
UserSystem == "user_system"

ApplyUnwrapOnNone == "apply: called Option::unwrap() on a None value"

\* A boxed command: its kind and the fields of its struct (those of the
\* other kinds are left at None / -1 / 0).
Cmd(kind, ed, id, res, st, sys) ==
    [ kind |-> kind, entity_definition |-> ed, entity_id |-> id,
      resource |-> res, stage |-> st, system |-> sys ]

\* InsertEntity::new, mutated: the definition is not stored.
InsertEntityNewEmpty(bundle) ==
    Cmd("InsertEntity", None, -1, None, 0, None)

\* InsertEntity::new
InsertEntityNew(bundle) ==
    Cmd("InsertEntity", Some(bundle), -1, None, 0, None)

\* DeleteEntity::new
DeleteEntityNew(id) ==
    Cmd("DeleteEntity", None, id, None, 0, None)

\* InsertResource::new
InsertResourceNew(r) ==
    Cmd("InsertResource", None, -1, Some(r), 0, None)

\* RegisterSystem::<S>::new
RegisterSystemNew(st, sys) ==
    Cmd("RegisterSystem", None, -1, None, st, Some(sys))

\* CommandQueue::push_command, mutated: the command goes to the front.
PushCommandFront(q, c) == << c >> \o q

\* CommandQueue::push_command on the Vec q.
PushCommand(q, c) == Append(q, c)

\* CommandQueue::into_iter: the Vec's own iterator.
IntoIter(q) == q

\* What a queue method leaves alone: everything but the queue.
QueueOnly == UNCHANGED << storage_vars, cache, systems >>

\* CommandQueue::insert, mutated: the entity is inserted at once.
CommandQueueInsertEager(bundle) ==
    /\ queue' = PushCommand(queue, InsertEntityNew(bundle))
    /\ entities' = entities \cup {next_entity_id}
    /\ transform' = [transform EXCEPT ![next_entity_id] = bundle]
    /\ dirty' = IF bundle = None THEN dirty ELSE dirty \cup {next_entity_id}
    /\ next_entity_id' = next_entity_id + 1
    /\ UNCHANGED << child_of, relationships, resources, cache, systems >>

\* CommandQueue::insert
CommandQueueInsert(bundle) ==
    /\ queue' = PushCommand(queue, InsertEntityNew(bundle))
    /\ QueueOnly

\* CommandQueue::delete
CommandQueueDelete(id) ==
    /\ queue' = PushCommand(queue, DeleteEntityNew(id))
    /\ QueueOnly

\* CommandQueue::insert_resource
CommandQueueInsertResource(r) ==
    /\ queue' = PushCommand(queue, InsertResourceNew(r))
    /\ QueueOnly

\* CommandQueue::register_system
CommandQueueRegisterSystem(st, sys) ==
    /\ queue' = PushCommand(queue, RegisterSystemNew(st, sys))
    /\ QueueOnly

\* Ecs::insert_system::<S>: the system is appended to its stage.
InsertSystem(st, sys) == systems' = [systems EXCEPT ![st] = Append(@, sys)]

\* InsertEntity::apply
ApplyInsertEntity(c) ==
    IF c.entity_definition = None
    THEN /\ panic' = ApplyUnwrapOnNone
         /\ UNCHANGED << storage_vars, cache, systems >>
    ELSE /\ StorageInsert(Unwrap(c.entity_definition))
         /\ UNCHANGED << cache, systems, panic >>

\* DeleteEntity::apply, mutated: Ecs::delete is not called.
ApplyDeleteEntitySkipped(c) ==
    UNCHANGED << storage_vars, cache, systems, panic >>

\* DeleteEntity::apply, mutated: the TransformCache entry of the entity is
\* removed with it.
ApplyDeleteEntityEvicting(c) ==
    /\ StorageDelete(c.entity_id)
    /\ cache' = [id \in EntityIds |->
                   IF id = c.entity_id THEN None ELSE cache[id]]
    /\ UNCHANGED << systems, panic >>

\* DeleteEntity::apply
ApplyDeleteEntity(c) ==
    /\ StorageDelete(c.entity_id)
    /\ UNCHANGED << cache, systems, panic >>

\* InsertResource::apply; a new TransformCache replaces the old one.
ApplyInsertResource(c) ==
    IF c.resource = None
    THEN /\ panic' = ApplyUnwrapOnNone
         /\ UNCHANGED << storage_vars, cache, systems >>
    ELSE /\ StorageInsertResource(Unwrap(c.resource))
         /\ cache' = IF Unwrap(c.resource) = "TransformCache"
                     THEN EmptyCache ELSE cache
         /\ UNCHANGED << systems, panic >>

\* RegisterSystem::apply
ApplyRegisterSystem(c) ==
    IF c.system = None
    THEN /\ panic' = ApplyUnwrapOnNone
         /\ UNCHANGED << storage_vars, cache, systems >>
    ELSE /\ InsertSystem(c.stage, Unwrap(c.system))
         /\ UNCHANGED << storage_vars, cache, panic >>

\* Command::apply, by the kind of the boxed command.
Apply(c) ==
    CASE c.kind = "InsertEntity" -> ApplyInsertEntity(c)
      [] c.kind = "DeleteEntity" -> ApplyDeleteEntity(c)
      [] c.kind = "InsertResource" -> ApplyInsertResource(c)
      [] OTHER -> ApplyRegisterSystem(c)

\* InsertEntity commands in the sequence q.
RECURSIVE CountInserts(_)
CountInserts(q) ==
    IF q = << >>
    THEN 0
    ELSE (IF Head(q).kind = "InsertEntity" THEN 1 ELSE 0) + CountInserts(Tail(q))

(***************************************************************************)
(* The systems the user registers: what one does while it runs.            *)
(***************************************************************************)
\* The resources a user system inserts.
UserResources == { "TransformCache", "Score" }

\* The bundles a user system inserts, the Transforms it writes.
UserTransforms ==
    { MkTransform(<<1, 0, 0>>, UnitScale, NoRotation),
      MkTransform(<<2, 0, 0>>, <<2, 2, 2>>, "quarter_z") }
UserBundles == {None} \cup { Some(t) : t \in UserTransforms }

\* The ids a user system passes to delete: those allocated so far, those the
\* queued inserts will allocate, and one that is never allocated.
UserIds == 0 .. (next_entity_id + CountInserts(queue))

\* The calls the user's systems may make in the behaviour.
IssueBudget ==
    IF "GraphicsState" \in resources THEN MaxIssuedRendering ELSE MaxIssued

\* A system written by the user is running: the init system, or a system
\* that a RegisterSystem command has put into a stage.
UserRunning ==
    /\ panic = "none"
    /\ \/ pc = "init_system" /\ init_system = "user_init"
       \/ pc = "system_body" /\ systems[stage][sys_idx] = UserSystem

user_frame ==
    << engine_vars, pending, frame_kind, frame_log, init_runs, last_cleared,
       drained, pre_entities, pre_next, prop_vars, panic, hist_vars,
       rest_vars >>

SysQueueInsert ==
    /\ UserRunning /\ ops < IssueBudget
    /\ next_entity_id + CountInserts(queue) < MaxEntities
    /\ \E bundle \in UserBundles :
          /\ CommandQueueInsert(bundle)
          /\ issued' = Append(issued, InsertEntityNew(bundle))
    /\ ops' = ops + 1
    /\ UNCHANGED user_frame

SysQueueDelete ==
    /\ UserRunning /\ ops < IssueBudget
    /\ \E id \in UserIds :
          /\ CommandQueueDelete(id)
          /\ issued' = Append(issued, DeleteEntityNew(id))
    /\ ops' = ops + 1
    /\ UNCHANGED user_frame

SysQueueInsertResource ==
    /\ UserRunning /\ ops < IssueBudget
    /\ \E r \in UserResources :
          /\ CommandQueueInsertResource(r)
          /\ issued' = Append(issued, InsertResourceNew(r))
    /\ ops' = ops + 1
    /\ UNCHANGED user_frame

SysQueueRegisterSystem ==
    /\ UserRunning /\ ops < IssueBudget
    /\ CommandQueueRegisterSystem(Update, UserSystem)
    /\ issued' = Append(issued, RegisterSystemNew(Update, UserSystem))
    /\ ops' = ops + 1
    /\ UNCHANGED user_frame

\* A query over &mut Transform: the component is written, its flag is set.
SysMutateTransform ==
    /\ UserRunning /\ ops < IssueBudget
    /\ \E id \in entities, t \in UserTransforms :
          /\ transform[id] # None
          /\ transform' = [transform EXCEPT ![id] = Some(t)]
          /\ dirty' = dirty \cup {id}
    /\ ops' = ops + 1
    /\ UNCHANGED << entities, next_entity_id, child_of, relationships,
                    resources, cache, systems, queue, issued >>
    /\ UNCHANGED user_frame

(***************************************************************************)
(* Draining a queue: Ecs applies what into_iter yields, in order.          *)
(***************************************************************************)
BeginDrain ==
    /\ pending' = IntoIter(queue)
    /\ queue' = << >>
    /\ drained' = << >>
    /\ pre_entities' = entities
    /\ pre_next' = next_entity_id

Draining == pc \in { "init_drain", "drain" }

\* The next command of the iterator is applied.
DrainApply ==
    /\ UNCHANGED rest_vars
    /\ Draining /\ panic = "none"
    /\ pending # << >>
    /\ Apply(Head(pending))
    /\ pending' = Tail(pending)
    /\ drained' = Append(drained, Head(pending))
    /\ UNCHANGED << engine_vars, queue, prop_vars, hist_vars, ops, frame_kind,
                    frame_log, init_runs, last_cleared, issued, pre_entities,
                    pre_next >>

(***************************************************************************)
(* Engine::update and the scheduler pass it starts.                        *)
(***************************************************************************)
\* A pass as add_pass stores it; age tells the passes added during the
\* current update from those an earlier update left behind.
NewPass(kind) == [kind |-> kind, age |-> "this"]

\* The passes as they look once the next update has begun.
Aged(g) == [i \in DOMAIN g |-> [g[i] EXCEPT !.age = "earlier"]]

\* Engine::update, mutated: the dirty flags are not cleared.
UpdateEntryNoClear ==
    /\ resources' = resources \cup {"DeltaTime"}
    /\ last_cleared' = last_cleared
    /\ frame_log' = << >>
    /\ UNCHANGED << entities, transform, dirty, next_entity_id, child_of,
                    relationships >>

\* Engine::update, its first two statements: the DeltaTime resource is
\* inserted and the dirty flags are cleared.
UpdateEntry ==
    /\ resources' = resources \cup {"DeltaTime"}
    /\ dirty' = {}
    /\ last_cleared' = dirty
    /\ frame_log' = << "clear_dirty_flags" >>
    /\ UNCHANGED << entities, transform, next_entity_id, child_of,
                    relationships >>

EngineUpdate ==
    /\ render_graph' = Aged(render_graph)
    /\ UNCHANGED << frame_ctx, input_state, cache_hist >>
    /\ pc = "idle" /\ panic = "none"
    /\ UpdateEntry
    /\ pc' = "init_check"
    /\ frame_kind' = IF frame_kind = "none" THEN "first" ELSE "later"
    /\ issued' = << >>
    /\ drained' = << >>
    /\ pre_entities' = {}
    /\ pre_next' = 0
    /\ UNCHANGED << cache, prop_vars, panic, hist_vars, ops, init_system,
                    init_system_ran, stage, sys_idx, systems, queue_vars,
                    init_runs >>

\* Engine::update, mutated: the init system is run whatever the flag says.
InitDueAlways == TRUE

\* Engine::update: the condition under which the init system is run.
InitDue == ~init_system_ran

\* run_systems is entered: a new queue, the first system of the first stage.
EnterRunSystems ==
    /\ pc' = "systems"
    /\ stage' = Update
    /\ sys_idx' = 1
    /\ queue' = << >>
    /\ issued' = << >>

\* Engine::update: the init system is run (run_single_run_system) when it
\* is due; otherwise the scheduler pass starts.
EngineInitCheck ==
    /\ UNCHANGED rest_vars
    /\ pc = "init_check" /\ panic = "none"
    /\ IF InitDue
       THEN /\ pc' = "init_system"
            /\ queue' = << >>
            /\ issued' = << >>
            /\ frame_log' = Append(frame_log, "init_system")
            /\ init_runs' = init_runs + 1
            /\ UNCHANGED << stage, sys_idx >>
       ELSE /\ EnterRunSystems
            /\ UNCHANGED << frame_log, init_runs >>
    /\ last_cleared' = {}
    /\ UNCHANGED << storage_vars, cache, prop_vars, panic, hist_vars, ops,
                    init_system, init_system_ran, systems, pending,
                    frame_kind, drained, pre_entities, pre_next >>

\* The init system returns: its queue is drained.
InitSystemReturn ==
    /\ UNCHANGED rest_vars
    /\ pc = "init_system" /\ panic = "none"
    /\ pc' = "init_drain"
    /\ BeginDrain
    /\ UNCHANGED << storage_vars, cache, prop_vars, panic, hist_vars, ops,
                    init_system, init_system_ran, stage, sys_idx, systems,
                    frame_kind, frame_log, init_runs, last_cleared, issued >>

\* run_single_run_system has returned: the flag is set, run_systems starts.
InitDone ==
    /\ UNCHANGED rest_vars
    /\ pc = "init_drain" /\ panic = "none"
    /\ pending = << >>
    /\ init_system_ran' = TRUE
    /\ EnterRunSystems
    /\ UNCHANGED << storage_vars, cache, prop_vars, panic, hist_vars, ops,
                    init_system, systems, pending, frame_kind, frame_log,
                    init_runs, last_cleared, drained, pre_entities, pre_next >>

\* The scheduler starts the system in turn.
ScheduleSystem ==
    /\ UNCHANGED rest_vars
    /\ pc = "systems" /\ panic = "none"
    /\ sys_idx <= Len(systems[stage])
    /\ pc' = "system_body"
    /\ frame_log' = Append(frame_log, systems[stage][sys_idx])
    /\ IF systems[stage][sys_idx] = PropSystem
       THEN PropEnter
       ELSE UNCHANGED << prop_vars, written, write_log >>
    /\ UNCHANGED << storage_vars, cache, panic, first_cache, runs, ops,
                    init_system, init_system_ran, stage, sys_idx, systems,
                    queue_vars, frame_kind, init_runs, last_cleared, issued,
                    drained, pre_entities, pre_next >>

\* A user system returns.
UserSystemReturn ==
    /\ UNCHANGED rest_vars
    /\ pc = "system_body" /\ panic = "none"
    /\ systems[stage][sys_idx] = UserSystem
    /\ pc' = "systems"
    /\ sys_idx' = sys_idx + 1
    /\ UNCHANGED << storage_vars, cache, prop_vars, panic, hist_vars, ops,
                    init_system, init_system_ran, stage, systems, queue_vars,
                    frame_vars >>

\* The propagation system has returned to the scheduler.
PropSystemReturn ==
    /\ UNCHANGED rest_vars
    /\ pc = "system_body" /\ panic = "none"
    /\ prop_pc = "returned"
    /\ prop_pc' = "off"
    /\ pc' = "systems"
    /\ sys_idx' = sys_idx + 1
    /\ UNCHANGED << storage_vars, cache, to_visit, dirty_transform_entities,
                    panic, hist_vars, ops, init_system, init_system_ran,
                    stage, systems, queue_vars, frame_vars >>

\* The systems of the stage have run: the next stage is taken.
NextStage ==
    /\ UNCHANGED rest_vars
    /\ pc = "systems" /\ panic = "none"
    /\ sys_idx > Len(systems[stage])
    /\ stage < FinalizeRender
    /\ stage' = stage + 1
    /\ sys_idx' = 1
    /\ UNCHANGED << storage_vars, cache, prop_vars, panic, hist_vars, ops,
                    init_system, init_system_ran, pc, systems, queue_vars,
                    frame_vars >>

\* The pass is over: the queue of the pass is drained.
EndPass ==
    /\ UNCHANGED rest_vars
    /\ pc = "systems" /\ panic = "none"
    /\ sys_idx > Len(systems[stage])
    /\ stage = FinalizeRender
    /\ pc' = "drain"
    /\ BeginDrain
    /\ UNCHANGED << storage_vars, cache, prop_vars, panic, hist_vars, ops,
                    init_system, init_system_ran, stage, sys_idx, systems,
                    frame_kind, frame_log, init_runs, last_cleared, issued >>

\* Engine::update returns.
UpdateReturn ==
    /\ UNCHANGED rest_vars
    /\ pc = "drain" /\ panic = "none"
    /\ pending = << >>
    /\ pc' = "idle"
    /\ UNCHANGED << storage_vars, cache, prop_vars, panic, hist_vars, ops,
                    init_system, init_system_ran, stage, sys_idx, systems,
                    queue_vars, frame_vars >>

(***************************************************************************)
(* The renderer: renderer_init, its systems and the RenderGraph.           *)
(***************************************************************************)
BeginFrame == "begin_frame_system"
AddClearPass == "add_clear_pass_system"
AddDrawTrianglePass == "add_draw_triangle_pass_system"
PreparePasses == "prepare_passes_system"
FinishFrame == "finish_frame_system"
RendererSystems ==
    { BeginFrame, AddClearPass, AddDrawTrianglePass, PreparePasses, FinishFrame }

\* The resources renderer_init inserts.
RendererResources ==
    { "GraphicsState", "RenderGraph", "FrameRenderingContext", "RenderPipelines" }

\* The fields of FrameRenderingContext.
FrameCtxFields == { "surface_texture", "surface_texture_view", "encoder" }

FrameCtxUnwrapOnNone == "frame_ctx: called Option::unwrap() on a None value"

\* The two kinds of pass the renderer adds.
ClearPass == "ClearPass"
Pass2d == "pass_2d::Pass"

\* RenderGraph::clear
RenderGraphClear(g) == << >>

\* RenderGraph::add_pass
RenderGraphAddPass(g, kind) == Append(g, NewPass(kind))

PrepareOf(kind) == IF kind = ClearPass THEN "prepare ClearPass" ELSE "prepare pass_2d::Pass"
ExecuteOf(kind) == IF kind = ClearPass THEN "execute ClearPass" ELSE "execute pass_2d::Pass"

\* RenderGraph::prepare: prepare is called on every pass, in order.
RenderGraphPrepare(g) == [i \in DOMAIN g |-> PrepareOf(g[i].kind)]

\* RenderGraph::execute: execute is called on every pass, in order.
RenderGraphExecute(g) == [i \in DOMAIN g |-> ExecuteOf(g[i].kind)]

\* renderer_init, mutated: finish_frame_system is registered ahead of
\* prepare_passes_system.
EngineInitGraphicsFinishFirst ==
    /\ pc = "idle" /\ panic = "none"
    /\ frame_kind = "none"
    /\ "GraphicsState" \notin resources
    /\ resources' = resources \cup RendererResources
    /\ render_graph' = << >>
    /\ frame_ctx' = {}
    /\ systems' =
          [systems EXCEPT
             ![Render] = @ \o << BeginFrame, AddClearPass, AddDrawTrianglePass >>,
             ![FinalizeRender] = @ \o << FinishFrame, PreparePasses >>]
    /\ UNCHANGED << entities, transform, dirty, next_entity_id, child_of,
                    relationships, cache, prop_vars, panic, hist_vars, ops,
                    engine_vars, queue_vars, frame_vars, input_state,
                    cache_hist >>

\* Engine::init_graphics (renderer_init), called before the first update:
\* the resources are inserted and the five systems registered.
EngineInitGraphics ==
    /\ pc = "idle" /\ panic = "none"
    /\ frame_kind = "none"
    /\ "GraphicsState" \notin resources
    /\ resources' = resources \cup RendererResources
    /\ render_graph' = << >>
    /\ frame_ctx' = {}
    /\ systems' =
          [systems EXCEPT
             ![Render] = @ \o << BeginFrame, AddClearPass, AddDrawTrianglePass >>,
             ![FinalizeRender] = @ \o << PreparePasses, FinishFrame >>]
    /\ UNCHANGED << entities, transform, dirty, next_entity_id, child_of,
                    relationships, cache, prop_vars, panic, hist_vars, ops,
                    engine_vars, queue_vars, frame_vars, input_state,
                    cache_hist >>

\* The renderer system sys is in turn and runs to its end.
RendererSystemRuns(sys) ==
    /\ pc = "system_body" /\ panic = "none"
    /\ systems[stage][sys_idx] = sys

RendererSystemReturns ==
    /\ pc' = "systems"
    /\ sys_idx' = sys_idx + 1

\* What no renderer system touches.
renderer_frame ==
    << storage_vars, cache, prop_vars, hist_vars, ops, init_system,
       init_system_ran, stage, systems, queue_vars, frame_kind, init_runs,
       last_cleared, issued, drained, pre_entities, pre_next, input_state,
       cache_hist >>

\* begin_frame_system, mutated: the graph is not cleared.
BeginFrameSystemNoClear ==
    /\ RendererSystemRuns(BeginFrame)
    /\ frame_ctx' = FrameCtxFields
    /\ RendererSystemReturns
    /\ UNCHANGED << render_graph, panic, frame_log >>
    /\ UNCHANGED renderer_frame

\* begin_frame_system, were the command encoder not stored in the context.
BeginFrameSystemNoEncoder ==
    /\ RendererSystemRuns(BeginFrame)
    /\ frame_ctx' = FrameCtxFields \ { "encoder" }
    /\ render_graph' = RenderGraphClear(render_graph)
    /\ RendererSystemReturns
    /\ UNCHANGED << panic, frame_log >>
    /\ UNCHANGED renderer_frame

\* begin_frame_system: the three fields of the context are set, the graph
\* is cleared.
BeginFrameSystem ==
    /\ RendererSystemRuns(BeginFrame)
    /\ frame_ctx' = FrameCtxFields
    /\ render_graph' = RenderGraphClear(render_graph)
    /\ RendererSystemReturns
    /\ UNCHANGED << panic, frame_log >>
    /\ UNCHANGED renderer_frame

\* add_clear_pass_system
AddClearPassSystem ==
    /\ RendererSystemRuns(AddClearPass)
    /\ render_graph' = RenderGraphAddPass(render_graph, ClearPass)
    /\ RendererSystemReturns
    /\ UNCHANGED << frame_ctx, panic, frame_log >>
    /\ UNCHANGED renderer_frame

\* add_draw_triangle_pass_system
AddDrawTrianglePassSystem ==
    /\ RendererSystemRuns(AddDrawTrianglePass)
    /\ render_graph' = RenderGraphAddPass(render_graph, Pass2d)
    /\ RendererSystemReturns
    /\ UNCHANGED << frame_ctx, panic, frame_log >>
    /\ UNCHANGED renderer_frame

\* prepare_passes_system
PreparePassesSystem ==
    /\ RendererSystemRuns(PreparePasses)
    /\ frame_log' = frame_log \o RenderGraphPrepare(render_graph)
    /\ RendererSystemReturns
    /\ UNCHANGED << render_vars, panic >>
    /\ UNCHANGED renderer_frame

\* finish_frame_system: the encoder and the view are taken, the graph is
\* executed, the surface texture is taken and presented.
FinishFrameSystem ==
    /\ RendererSystemRuns(FinishFrame)
    /\ IF { "encoder", "surface_texture_view" } \subseteq frame_ctx
       THEN /\ frame_log' = frame_log \o RenderGraphExecute(render_graph)
            /\ IF "surface_texture" \in frame_ctx
               THEN /\ frame_ctx' = {}
                    /\ RendererSystemReturns
                    /\ UNCHANGED panic
               ELSE /\ frame_ctx' = frame_ctx \ { "encoder", "surface_texture_view" }
                    /\ panic' = FrameCtxUnwrapOnNone
                    /\ UNCHANGED << pc, sys_idx >>
       ELSE /\ panic' = FrameCtxUnwrapOnNone
            /\ frame_ctx' = frame_ctx \ { "encoder" }
            /\ UNCHANGED << pc, sys_idx, frame_log >>
    /\ UNCHANGED render_graph
    /\ UNCHANGED renderer_frame

(***************************************************************************)
(* Engine::on_input.                                                       *)
(***************************************************************************)
ExpectInputState == "InputState should be present in the engine's resources"

\* The inputs the window delivers in the model: one key, down and up.
Inputs == { "KeyDown", "KeyUp" }

\* InputState::on_input
InputStateOnInput(st, input) ==
    IF input = "KeyDown" THEN st \cup { "key" } ELSE st \ { "key" }

\* Engine::on_input, were the dirty flags reset by it as update resets them.
EngineOnInputClearing ==
    /\ pc = "idle" /\ panic = "none"
    /\ "GraphicsState" \in resources
    /\ \E input \in Inputs :
          input_state' = InputStateOnInput(input_state, input)
    /\ dirty' = {}
    /\ UNCHANGED << entities, transform, next_entity_id, child_of,
                    relationships, resources, cache, prop_vars, panic,
                    hist_vars, ops, engine_vars, systems, queue_vars,
                    frame_vars, render_vars, cache_hist >>

\* Engine::on_input, between two updates; the inputs come from the window
\* the renderer was initialised with.
EngineOnInput ==
    /\ pc = "idle" /\ panic = "none"
    /\ "GraphicsState" \in resources
    /\ IF "InputState" \in resources
       THEN /\ \E input \in Inputs :
                 input_state' = InputStateOnInput(input_state, input)
            /\ UNCHANGED panic
       ELSE /\ panic' = ExpectInputState
            /\ UNCHANGED input_state
    /\ UNCHANGED << storage_vars, cache, prop_vars, hist_vars, ops, engine_vars,
                    systems, queue_vars, frame_vars, render_vars, cache_hist >>

\* The Engine as EngineBuilder::build returns it, with or without an init
\* system of the user.
Init ==
    /\ entities = {}
    /\ transform = NoTransforms
    /\ dirty = {}
    /\ next_entity_id = 0
    /\ child_of = {}
    /\ relationships = {"ChildOf"}
    /\ resources = {"InputState", "TransformCache", "AssetStore"}
    /\ cache = EmptyCache
    /\ prop_pc = "off"
    /\ to_visit = << >>
    /\ dirty_transform_entities = << >>
    /\ panic = "none"
    /\ written = {}
    /\ write_log = << >>
    /\ first_cache = NoRun
    /\ runs = 0
    /\ ops = 0
    /\ init_system \in {"user_init", "Noop"}
    /\ init_system_ran = FALSE
    /\ pc = "idle"
    /\ stage = Update
    /\ sys_idx = 1
    /\ systems = [s \in Stages |->
                    IF s = Render THEN << PropSystem >> ELSE << >>]
    /\ queue = << >>
    /\ pending = << >>
    /\ frame_kind = "none"
    /\ frame_log = << >>
    /\ init_runs = 0
    /\ last_cleared = {}
    /\ issued = << >>
    /\ drained = << >>
    /\ pre_entities = {}
    /\ pre_next = 0
    /\ render_graph = << >>
    /\ frame_ctx = {}
    /\ input_state = {}
    /\ cache_calls = << >>
    /\ got = None

Next ==
    \/ EngineUpdate
    \/ EngineInitCheck
    \/ SysQueueInsert
    \/ SysQueueDelete
    \/ SysQueueInsertResource
    \/ SysQueueRegisterSystem
    \/ SysMutateTransform
    \/ InitSystemReturn
    \/ DrainApply
    \/ InitDone
    \/ ScheduleSystem
    \/ UserSystemReturn
    \/ PropVisit
    \/ PropBorrowCache
    \/ PropRecompute
    \/ PropLeave
    \/ PropSystemReturn
    \/ NextStage
    \/ EndPass
    \/ UpdateReturn
    \/ EngineInitGraphics
    \/ BeginFrameSystem
    \/ AddClearPassSystem
    \/ AddDrawTrianglePassSystem
    \/ PreparePassesSystem
    \/ FinishFrameSystem
    \/ EngineOnInput

Spec == Init /\ [][Next]_vars

(***************************************************************************)
(* Properties of Engine::update and of the CommandQueue, checked under     *)
(* Spec.                                                                   *)
(***************************************************************************)
InLog(e) == \E i \in DOMAIN frame_log : frame_log[i] = e

\* C1: across any number of calls to Engine::update on one Engine, the init
\* system is executed exactly once: during the first update call, and before
\* any regular stage system of that call runs; no later update call runs it
\* again.
C1_InitExactlyOnce ==
    /\ init_runs <= 1
    /\ (frame_kind = "none" \/ (frame_kind = "first" /\ pc = "init_check"))
          => init_runs = 0
    /\ (frame_kind = "first" /\ pc # "init_check")
          => init_runs = 1 /\ InLog("init_system")
    /\ frame_kind = "later" => init_runs = 1 /\ ~InLog("init_system")
    /\ \A i \in DOMAIN frame_log :
          (frame_kind = "first" /\ frame_log[i] \in { UserSystem, PropSystem })
          => \E j \in 1 .. (i - 1) : frame_log[j] = "init_system"

\* The case of C1: a second update has run its systems after a first one
\* that ran the user's init system and a stage system.
C1_Witness ==
    /\ frame_kind = "later"
    /\ pc = "idle"
    /\ init_system = "user_init"
    /\ init_runs = 1
    /\ InLog(UserSystem) /\ InLog(PropSystem)

\* C2: every call to Engine::update clears all dirty flags exactly once, and
\* does so before the init system and before any stage system runs in that
\* call; nothing inside the rest of that update call clears dirty flags again.
C2_ClearOncePerUpdate ==
    /\ [](pc = "init_check" => dirty = {})
    /\ [](frame_kind # "none" =>
            /\ Len(frame_log) >= 1
            /\ frame_log[1] = "clear_dirty_flags"
            /\ \A i \in 2 .. Len(frame_log) : frame_log[i] # "clear_dirty_flags")
    /\ [][(dirty \ dirty' # {}) => (pc = "idle" /\ pc' = "init_check")]_vars

\* The case of C2: an update has just reset flags that were set.
C2_Witness ==
    /\ pc = "init_check"
    /\ last_cleared # {}
    /\ dirty = {}

\* C3: for any sequence of CommandQueue::insert, delete, insert_resource and
\* register_system calls on one queue, into_iter yields exactly the issued
\* commands, each exactly once, in the order they were issued.
C3_QueueFifo ==
    /\ (~Draining /\ pc # "idle") => queue = issued
    /\ Draining => drained \o pending = issued

\* The case of C3: a queue on which all four methods were called is drained.
C3_Witness ==
    /\ Draining
    /\ pending = << >>
    /\ { drained[i].kind : i \in DOMAIN drained } =
          { "InsertEntity", "DeleteEntity", "InsertResource", "RegisterSystem" }

\* The structure of the storage: the alive entities, the ids of each
\* component table, the resources, the relationship graphs, the systems.
Structure ==
    << entities, { id \in EntityIds : transform[id] # None }, next_entity_id,
       resources, relationships, child_of, systems >>

\* C4: issuing a command changes only the queue: the alive entities, the
\* component tables, the resources, the relationship graphs and the
\* registered systems are unchanged until the queue is drained, so every
\* later system of the same stage sees the same storage as the issuer.
C4_IssueChangesOnlyQueue ==
    /\ [][(Len(queue') = Len(queue) + 1) =>
             UNCHANGED << storage_vars, cache, systems >>]_vars
    /\ [][(~Draining /\ pc # "idle") => UNCHANGED Structure]_vars

\* The case of C4: a second system of the Update stage runs while a command
\* issued in the pass waits in the queue.
C4_Witness ==
    /\ pc = "system_body"
    /\ stage = Update
    /\ sys_idx >= 2
    /\ queue # << >>

\* The id the i-th drained command, an InsertEntity, has allocated.
AllocatedBy(i) == pre_next + CountInserts(SubSeq(drained, 1, i - 1))

\* insert(X) at i and then delete(id) at j, id alive before the frame's
\* drain, and no queued delete naming the id X is given.
InsertThenDelete(i, j) ==
    /\ i < j
    /\ drained[i].kind = "InsertEntity"
    /\ drained[j].kind = "DeleteEntity"
    /\ drained[j].entity_id \in pre_entities
    /\ \A k \in DOMAIN drained :
          drained[k].kind = "DeleteEntity" =>
              drained[k].entity_id # AllocatedBy(i)

\* C5: when a system queues insert(X) and then delete(id) in the same frame,
\* id being the id of an entity inserted earlier, the two commands are
\* applied in issue order and both have taken effect by the next frame
\* boundary: when update has returned X's entity is alive and id is not.
C5_InsertThenDeleteBothApplied ==
    (pc = "idle" /\ frame_kind # "none") =>
        \A i \in DOMAIN drained, j \in DOMAIN drained :
            InsertThenDelete(i, j) =>
                /\ AllocatedBy(i) \in entities
                /\ drained[j].entity_id \notin entities
                /\ drained = issued

\* The case of C5: in a later frame a system has queued an insert and then
\* the delete of an entity of a prior frame.
C5_Witness ==
    /\ pc = "idle"
    /\ frame_kind = "later"
    /\ \E i \in DOMAIN drained, j \in DOMAIN drained :
          /\ InsertThenDelete(i, j)
          /\ AllocatedBy(i) \in entities
          /\ drained[j].entity_id \notin entities

\* C6: applying each drained command once never aborts, for every command
\* kind and every storage state, including a DeleteEntity whose id was never
\* allocated or has already been deleted.
C6_ApplyNeverAborts ==
    /\ Draining => panic = "none"
    /\ panic # ApplyUnwrapOnNone

\* The case of C6: a drain has applied an InsertEntity, two DeleteEntity of
\* the id it allocated (the second finds it deleted) and a DeleteEntity of
\* an id that was never allocated.
C6_Witness ==
    /\ Draining
    /\ pending = << >>
    /\ panic = "none"
    /\ \E i \in DOMAIN drained :
          /\ drained[i].kind = "DeleteEntity"
          /\ drained[i].entity_id >= next_entity_id
    /\ \E i \in DOMAIN drained, j \in DOMAIN drained, k \in DOMAIN drained :
          /\ i < j /\ j < k
          /\ drained[i].kind = "InsertEntity"
          /\ drained[j].kind = "DeleteEntity"
          /\ drained[k].kind = "DeleteEntity"
          /\ drained[j].entity_id = AllocatedBy(i)
          /\ drained[k].entity_id = AllocatedBy(i)

(***************************************************************************)
(* Properties of the transform propagation system, checked under SpecEcs.  *)
(***************************************************************************)
\* A run of the system has returned and the storage has not changed since.
RunCompleted == prop_pc = "off" /\ panic = "none" /\ pc = "ecs" /\ runs >= 1

IsPlain(id) ==
    /\ transform[id] # None
    /\ Unwrap(transform[id]).scale = UnitScale
    /\ Unwrap(transform[id]).rotation = NoRotation

Translation(id) == Unwrap(transform[id]).translation

VecAdd(u, v) == << u[1] + v[1], u[2] + v[2], u[3] + v[3] >>

\* C7: for a root A and a child B of A, both with unit scale and no rotation
\* and both dirty in the frame, after one run of the propagation system the
\* cached world translation of A is A's translation and that of B is the sum
\* of A's and B's translations.
C7_HierarchyTranslation ==
    RunCompleted =>
        \A a \in entities, b \in entities :
            ( /\ Successors(a) = {}
              /\ << b, a >> \in child_of
              /\ DirtyState(a) /\ DirtyState(b)
              /\ IsPlain(a) /\ IsPlain(b) )
            => /\ cache[a] # None /\ cache[b] # None
               /\ TranslationOf(CacheGet(a)) = Translation(a)
               /\ TranslationOf(CacheGet(b)) =
                      VecAdd(Translation(a), Translation(b))

\* The case of C7: A = (1,0,0), B = (0,1,0), B's cached translation (1,1,0).
C7_Witness ==
    /\ RunCompleted
    /\ \E a \in entities, b \in entities :
          /\ Successors(a) = {}
          /\ << b, a >> \in child_of
          /\ DirtyState(a) /\ DirtyState(b)
          /\ IsPlain(a) /\ IsPlain(b)
          /\ Translation(a) = << 1, 0, 0 >>
          /\ Translation(b) = << 0, 1, 0 >>
          /\ TranslationOf(CacheGet(b)) = << 1, 1, 0 >>

\* The world matrix of id as C8 describes it: the local matrix multiplied by
\* the parent's TransformCache entry (identity when the parent has none).
WorldFromCache(id) ==
    IF Successors(id) = {}
    THEN AsMatrix4(Unwrap(transform[id]))
    ELSE Mul(CacheGet(CHOOSE p \in Successors(id) : TRUE),
             AsMatrix4(Unwrap(transform[id])))

\* C8: for every entity recomputed in a propagation run, the value stored in
\* TransformCache is its local matrix multiplied by each parent's world
\* matrix (the parent's TransformCache entry, or identity when the parent
\* has no entry), so that in a chain G <- P <- C the value stored for C
\* includes the transforms of both P and G.
C8_StoredIsParentWorldTimesLocal ==
    RunCompleted =>
        \A id \in written :
            transform[id] # None => cache[id] = Some(WorldFromCache(id))

\* C9: in a propagation run, every transitive descendant (through ChildOf)
\* of an entity that is recomputed has its own TransformCache entry rewritten
\* in the same run, whether or not the descendant's Transform is dirty.
C9_DescendantsRewritten ==
    RunCompleted =>
        \A id \in written : Descendants(id) \subseteq written

\* The case of C9: only root A is dirty, its child B is not, and the run has
\* rewritten B's entry.
C9_Witness ==
    /\ RunCompleted
    /\ \E a \in entities, b \in entities :
          /\ Successors(a) = {}
          /\ << b, a >> \in child_of
          /\ DirtyState(a) /\ ~DirtyState(b)
          /\ a \in written /\ b \in written
          /\ cache[b] =
                Some(Mul(AsMatrix4(Unwrap(transform[a])),
                         AsMatrix4(Unwrap(transform[b]))))

\* C10: running the propagation system twice in the same frame, with no
\* Transform mutation, no dirty-flag change and no structural change between
\* the two runs, leaves TransformCache with identical entries after the
\* second run as after the first.
C10_PropagationIdempotent ==
    (RunCompleted /\ first_cache # NoRun) => cache = Unwrap(first_cache)

\* The case of C10: a second run has returned after a first that wrote.
C10_Witness ==
    /\ RunCompleted
    /\ runs >= 2
    /\ written # {}
    /\ \E a \in written : Sources(a) # {}

(***************************************************************************)
(* Claims C11 - C13: which entities a propagation run reaches.             *)
(***************************************************************************)
\* The propagation system has returned from a run over a registered graph.
RunReturned == prop_pc = "returned" /\ "ChildOf" \in relationships

\* C11: when a propagation run over a ChildOf forest has returned, every
\* entity whose Transform is dirty in this frame has had its TransformCache
\* entry written in that run, whatever its depth and whether or not its
\* ancestors are dirty.
C11_DirtyEntitiesWritten ==
    RunReturned =>
        \A id \in dirty : id \in written /\ cache[id] # None

\* A dirty child under a clean parent has been written by a returned run.
C11_Witness ==
    /\ RunReturned /\ pc = "ecs"
    /\ \E c \in entities, p \in entities :
          /\ << c, p >> \in child_of
          /\ DirtyState(c) /\ ~DirtyState(p)
          /\ c \in written

\* An entity with a Transform and no ChildOf edge in either direction.
Isolated(id) ==
    /\ id \in entities /\ Component(id) # None
    /\ Successors(id) = {} /\ Sources(id) = {}

\* C12: after a propagation run, an entity with a Transform and no ChildOf
\* edge in either direction whose Transform is dirty has a TransformCache
\* entry equal to its local matrix, as_matrix4 of its own Transform.
C12_IsolatedGetsLocalMatrix ==
    RunReturned =>
        \A id \in EntityIds :
            (Isolated(id) /\ DirtyState(id)) =>
                cache[id] = Some(AsMatrix4(Unwrap(Component(id))))

\* A run has returned with a dirty isolated entity that is scaled, rotated
\* and translated, next to a parent and child pair.
C12_Witness ==
    /\ RunReturned /\ pc = "ecs"
    /\ \E id \in EntityIds :
          /\ Isolated(id) /\ DirtyState(id)
          /\ Unwrap(Component(id)).scale # UnitScale
          /\ cache[id] # Some(Identity)
    /\ child_of # {}

\* The ChildOf graph is registered and no TransformCache resource is present.
CacheMissing == "ChildOf" \in relationships /\ "TransformCache" \notin resources

\* C13: with the ChildOf graph registered and no TransformCache resource, the
\* propagation system never reaches its recompute loop and never returns: the
\* step after its visit loop is the abort with the message of the expect, and
\* no cache entry is written.
C13_MissingCacheAborts ==
    /\ [](CacheMissing =>
            /\ prop_pc \notin { "recompute", "returned" }
            /\ panic \in { "none", ExpectTransformCache }
            /\ runs = 0 /\ written = {} /\ cache = EmptyCache)
    /\ [][(CacheMissing /\ prop_pc = "visit" /\ to_visit = << >>)
              => panic' = ExpectTransformCache]_vars

\* A run over a storage with a dirty entity has ended in the abort.
C13_Witness ==
    /\ CacheMissing
    /\ panic = ExpectTransformCache
    /\ prop_pc = "visit" /\ pc = "ecs"
    /\ dirty # {}

(***************************************************************************)
(* Claim C14: TransformCache::get and set, checked under SpecCache.        *)
(***************************************************************************)
\* The matrix of the most recent set(id, _) in the call history, if any.
RECURSIVE LastSet(_, _)
LastSet(calls, id) ==
    IF calls = << >>
    THEN None
    ELSE IF calls[Len(calls)][1] = id
         THEN Some(calls[Len(calls)][2])
         ELSE LastSet(SubSeq(calls, 1, Len(calls) - 1), id)

\* What get(id) has to return after the set calls in the history.
Expected(id) ==
    IF LastSet(cache_calls, id) = None
    THEN Identity
    ELSE Unwrap(LastSet(cache_calls, id))

\* C14: after any sequence of TransformCache::set calls, get(id) returns the
\* matrix of the most recent set(id, m), and the identity matrix for an id
\* never set; a get call adds no entry and changes none.
C14_GetReturnsLastSet ==
    /\ [](\A id \in EntityIds :
            /\ CacheGet(id) = Expected(id)
            /\ (cache[id] = None) <=> (LastSet(cache_calls, id) = None))
    /\ [][got' # got =>
            /\ Unwrap(got')[2] = Expected(Unwrap(got')[1])
            /\ cache' = cache /\ cache_calls' = cache_calls]_vars

\* One id has been set twice with different matrices and then read, another
\* id has never been set and has been read before.
C14_Witness ==
    /\ pc = "cache"
    /\ \E i, j \in DOMAIN cache_calls :
          /\ i < j
          /\ cache_calls[i][1] = cache_calls[j][1]
          /\ cache_calls[i][2] # cache_calls[j][2]
          /\ got = Some(<< cache_calls[j][1], cache_calls[j][2] >>)
          /\ cache_calls[j][2] # Identity
    /\ \E id \in EntityIds : cache[id] = None

(***************************************************************************)
(* Claims C15 - C20: the frame with the renderer, checked under Spec.      *)
(***************************************************************************)
\* A system of the schedule is running, and it is sys.
Running(sys) ==
    /\ pc = "system_body"
    /\ sys_idx <= Len(systems[stage])
    /\ systems[stage][sys_idx] = sys

\* The step applies a command of the given kind.
Applies(kind) ==
    /\ Draining /\ pending # << >>
    /\ Head(pending).kind = kind
    /\ pending' = Tail(pending)

\* C15: over any sequence of update and on_input calls on a built Engine, a
\* step that adds, changes or removes a TransformCache entry is a step of the
\* recompute loop of compute_effective_transforms_system; the steps of the
\* other engine and renderer systems, the application of InsertEntity and
\* DeleteEntity commands and on_input leave every entry as it is.  (The one
\* other step that touches the cache is the application of an InsertResource
\* command by which the user's code replaces the resource itself.)
C15_CacheChangesOnlyInPropagation ==
    /\ [][cache' # cache =>
            \/ Running(PropSystem) /\ prop_pc = "recompute"
            \/ Applies("InsertResource")]_vars
    /\ [][(\/ \E sys \in RendererSystems : Running(sys)
            \/ Applies("InsertEntity")
            \/ Applies("DeleteEntity")
            \/ input_state' # input_state) => cache' = cache]_vars

\* An update with the renderer has written an entry, the renderer's systems
\* have run after it, a DeleteEntity command has removed the entity, and an
\* input has arrived: the entry is still there.
C15_Witness ==
    /\ pc = "idle" /\ panic = "none"
    /\ input_state # {}
    /\ InLog(FinishFrame)
    /\ \E i \in DOMAIN drained : drained[i].kind = "DeleteEntity"
    /\ \E id \in EntityIds : cache[id] # None /\ id \notin entities

\* renderer_init has been called on the Engine.
Rendering == "RenderGraph" \in resources

\* The FinalizeRender stage of the current update is about to start.
FinalizeStarts ==
    /\ Rendering
    /\ pc = "systems" /\ stage = FinalizeRender /\ sys_idx = 1

\* C16: in every frame after renderer_init, when the FinalizeRender stage
\* starts the RenderGraph holds exactly the passes added during this frame's
\* Render stage, one ClearPass followed by one pass_2d pass, and no pass of an
\* earlier frame; the number of passes does not grow from frame to frame.
C16_GraphRebuiltEachFrame ==
    /\ FinalizeStarts =>
          render_graph = << NewPass(ClearPass), NewPass(Pass2d) >>
    /\ Len(render_graph) <= 2

\* The FinalizeRender stage of a later frame starts: the first frame's
\* passes are gone, the graph holds the two of this frame.
C16_Witness ==
    /\ FinalizeStarts
    /\ frame_kind = "later"
    /\ Len(render_graph) = 2
    /\ \A i \in DOMAIN render_graph : render_graph[i].age = "this"

\* The calls of RenderPass::prepare and RenderPass::execute in the frame log.
IsPrepare(e) == e \in { PrepareOf(ClearPass), PrepareOf(Pass2d) }
IsExecute(e) == e \in { ExecuteOf(ClearPass), ExecuteOf(Pass2d) }
IsPassCall(e) == IsPrepare(e) \/ IsExecute(e)
PassCalls == SelectSeq(frame_log, IsPassCall)

\* C17: in every frame, prepare has been called on every pass of the
\* RenderGraph before execute is called on any pass, and execute visits the
\* passes in the order they were added, the ClearPass and then the pass_2d
\* pass, whatever the number of prepare calls of the frames before.
C17_PrepareAllThenExecuteInOrder ==
    /\ \A i, j \in DOMAIN PassCalls :
          (i < j /\ IsExecute(PassCalls[i])) => IsExecute(PassCalls[j])
    /\ SelectSeq(PassCalls, IsExecute) \in
          { << >>, << ExecuteOf(ClearPass), ExecuteOf(Pass2d) >> }
    /\ SelectSeq(PassCalls, IsExecute) # << >> =>
          SelectSeq(PassCalls, IsPrepare) =
              << PrepareOf(ClearPass), PrepareOf(Pass2d) >>
    /\ (Rendering /\ pc \in { "drain", "idle" } /\ frame_kind # "none"
           /\ panic = "none") =>
          SelectSeq(PassCalls, IsExecute) # << >>

\* A later frame has executed its two passes, after the prepare calls of
\* this frame and of the frames before it.
C17_Witness ==
    /\ Rendering /\ frame_kind = "later"
    /\ pc = "idle" /\ panic = "none"
    /\ PassCalls = << PrepareOf(ClearPass), PrepareOf(Pass2d),
                       ExecuteOf(ClearPass), ExecuteOf(Pass2d) >>

\* C18: whatever InsertEntity and DeleteEntity commands have been applied,
\* the EntityId given to a newly inserted entity is the id of no entity alive
\* at the time of the insertion: the application of an InsertEntity command
\* adds exactly one id to the alive ones, and every alive id lies below the
\* allocation counter the next insertion takes its id from.
C18_FreshEntityId ==
    /\ [](\A id \in entities : id < next_entity_id)
    /\ [][Applies("InsertEntity") =>
            \E id \in entities' \ entities :
                /\ entities' = entities \cup {id}
                /\ id = next_entity_id]_vars

\* A drain has inserted entities next to alive ones and, last, after the
\* deletion of an entity inserted before.
C18_Witness ==
    /\ Draining /\ pending = << >> /\ panic = "none"
    /\ drained # << >>
    /\ drained[Len(drained)].kind = "InsertEntity"
    /\ \E i \in DOMAIN drained :
          /\ drained[i].kind = "DeleteEntity"
          /\ drained[i].entity_id < next_entity_id - 1
          /\ drained[i].entity_id \notin entities
    /\ Cardinality(entities) >= 2

\* The step is the clear_dirty_flags call of Engine::update.
ClearStep == pc = "idle" /\ pc' = "init_check"

\* C19: for an entity inserted by applying an InsertEntity command,
\* dirty_state::<Transform>(id) is true once the insertion is done when the
\* bundle holds a Transform; the flag stays set until the next
\* clear_dirty_flags call, no other operation resets it, and right after
\* that call no flag is set.
C19_DirtyFromInsertToClear ==
    /\ [][(/\ Applies("InsertEntity")
            /\ Head(pending).entity_definition # None
            /\ Unwrap(Head(pending).entity_definition) # None)
              => next_entity_id \in dirty']_vars
    /\ [][(dirty \ dirty' # {}) => ClearStep]_vars
    /\ [][ClearStep => dirty' = {}]_vars

\* An update has returned: the entity its drain inserted is dirty, the flag
\* of an entity inserted by an earlier update has been cleared.
C19_Witness ==
    /\ pc = "idle" /\ panic = "none"
    /\ frame_kind = "later"
    /\ \E a \in entities, b \in entities :
          /\ a >= pre_next /\ Component(a) # None /\ DirtyState(a)
          /\ b < pre_next /\ Component(b) # None /\ ~DirtyState(b)

\* One access to a resource or component type: shared (Res, resource,
\* component, a & query) or exclusive (ResMut, resource_mut, a &mut query).
Shared(type) == [type |-> type, mode |-> "shared"]
Exclusive(type) == [type |-> type, mode |-> "exclusive"]

\* The accesses a system declares in its signature; they are live for the
\* whole invocation.
SystemParams(sys) ==
    CASE sys = BeginFrame ->
           << Exclusive("GraphicsState"), Exclusive("FrameRenderingContext"),
              Exclusive("RenderGraph") >>
      [] sys = AddClearPass -> << Exclusive("RenderGraph") >>
      [] sys = AddDrawTrianglePass ->
           << Shared("GraphicsState"), Exclusive("RenderGraph") >>
      [] sys = PreparePasses -> << Exclusive("RenderGraph") >>
      [] sys = FinishFrame ->
           << Exclusive("GraphicsState"), Exclusive("FrameRenderingContext"),
              Shared("RenderGraph"), Shared("RenderPipelines") >>
      [] sys = "user_init" ->
           << Shared("CommandQueue"), Exclusive("AssetStore"),
              Exclusive("GraphicsState") >>
      [] sys = UserSystem ->
           << Shared("InputState"), Shared("Player"), Exclusive("Transform") >>
      [] OTHER -> << >>

\* What the prepare and the execute of a pass reach through the &Storage
\* they are handed: ClearPass nothing, the pass_2d pass the sprites and
\* their transforms, read only.
PassStorageAccesses(kind) ==
    IF kind = ClearPass
    THEN << >>
    ELSE << Shared("Sprite"), Shared("Transform"), Shared("TransformCache") >>

RECURSIVE GraphStorageAccesses(_)
GraphStorageAccesses(g) ==
    IF g = << >>
    THEN << >>
    ELSE PassStorageAccesses(Head(g).kind) \o GraphStorageAccesses(Tail(g))

\* The accesses made through &Storage, were the recompute loop to read the
\* parent's TransformCache entry through a second borrow of the resource.
StorageAccessesCachedParent(sys) ==
    CASE sys = PropSystem ->
           << Shared("ChildOf"), Shared("Transform"),
              Exclusive("TransformCache"), Shared("TransformCache") >>
      [] sys \in { PreparePasses, FinishFrame } ->
           GraphStorageAccesses(render_graph)
      [] OTHER -> << >>

\* The accesses a system makes through the &Storage it is handed, live
\* together with its parameters.
StorageAccesses(sys) ==
    CASE sys = PropSystem ->
           << Shared("ChildOf"), Shared("Transform"),
              Exclusive("TransformCache") >>
      [] sys \in { PreparePasses, FinishFrame } ->
           GraphStorageAccesses(render_graph)
      [] OTHER -> << >>

\* The accesses live in the system invocation in progress, if there is one.
Held ==
    IF pc = "system_body" /\ sys_idx <= Len(systems[stage])
    THEN SystemParams(systems[stage][sys_idx])
             \o StorageAccesses(systems[stage][sys_idx])
    ELSE IF pc = "init_system"
         THEN SystemParams(init_system) \o StorageAccesses(init_system)
         ELSE << >>

\* Two of the accesses are to one type and one of the two is exclusive.
Conflict(accs) ==
    \E i, j \in DOMAIN accs :
        /\ i # j
        /\ accs[i].type = accs[j].type
        /\ "exclusive" \in { accs[i].mode, accs[j].mode }

\* C20: during any frame, no system registered by the engine, the renderer
\* or basic-app holds exclusive access to a resource or component type while
\* another access to the same type is live in the same invocation, the
\* accesses made through the &Storage handed to RenderGraph::prepare and
\* RenderGraph::execute included.
C20_NoAliasedExclusiveAccess == ~Conflict(Held)

\* finish_frame_system is running on a graph of two passes: it holds two
\* exclusive accesses next to the shared ones of its parameters and passes.
C20_Witness ==
    /\ Running(FinishFrame) /\ panic = "none"
    /\ Len(render_graph) = 2
    /\ Len(Held) > Len(SystemParams(FinishFrame))
    /\ \E i \in DOMAIN Held : Held[i].mode = "exclusive"

(***************************************************************************)
(* Claim C21: every call of Engine::update returns.  The host keeps        *)
(* calling into the Engine and a call that has begun keeps running, so     *)
(* some step of Next is taken whenever one is possible.                    *)
(***************************************************************************)
SpecLive == Init /\ [][Next]_vars /\ WF_vars(Next)

\* An update call is in progress.
InUpdate == pc \notin { "idle", "ecs", "cache" }

\* C21: every call to Engine::update returns: once a call has begun, the
\* Engine is idle again at some later point, so both work-list loops of the
\* propagation system have ended and nothing has aborted the call.
C21_UpdateReturns == InUpdate ~> (pc = "idle")

(***************************************************************************)
(* The propagation system and the entries it leaves alone.                 *)
(***************************************************************************)
\* The value TransformCache::get returns for id on the map c.
ValueIn(c, id) == IF c[id] = None THEN Identity ELSE Unwrap(c[id])

\* Neither the Transform of id nor that of any of its ancestors is dirty.
CleanLine(id) == ~DirtyState(id) /\ \A a \in Ancestors(id) : ~DirtyState(a)

\* C22: a propagation run leaves the TransformCache value of an entity as it
\* was before the run when neither its own Transform nor the Transform of any
\* of its ancestors is dirty: no step of the run changes that value.
C22_CleanLineKeepsValue ==
    [][prop_pc = "recompute" =>
          \A id \in EntityIds :
              CleanLine(id) => ValueIn(cache', id) = ValueIn(cache, id)]_vars

\* The entities a recompute of id can come from: id, its ancestors, and the
\* descendants of id and of its ancestors.
Relatives(id) ==
    LET line == {id} \cup Ancestors(id)
    IN  line \cup UNION { Descendants(a) : a \in line }

\* C22, amended: a propagation run makes no set for an entity, and so leaves
\* its TransformCache entry as it was, when no Transform is dirty among the
\* entity, its ancestors, and the descendants of the entity and of its
\* ancestors.
C22_CleanRelativesKeepEntry ==
    [][prop_pc = "recompute" =>
          \A id \in EntityIds :
              (\A r \in Relatives(id) : r \notin dirty) => cache'[id] = cache[id]]_vars

\* A run that has set an entry has returned, and a child with a Transform
\* whose relatives are all clean has not been set.
C22_Witness ==
    /\ RunReturned /\ written # {}
    /\ \E id \in entities :
          /\ Successors(id) # {}
          /\ Component(id) # None
          /\ \A r \in Relatives(id) : r \notin dirty
          /\ id \notin written

(***************************************************************************)
(* The order of the sets of a propagation run.                             *)
(***************************************************************************)
\* The positions of write_log at which the entry of id was set.
SetsOf(id) == { i \in DOMAIN write_log : write_log[i] = id }

\* The position of the last set of the entry of id (id has been set).
LastSetOf(id) == CHOOSE i \in SetsOf(id) : \A j \in SetsOf(id) : j <= i

\* C23: in a propagation run that has recomputed an entity and one of its
\* parents, the parent's TransformCache entry is set before the last set of
\* the entity's own entry, in whatever order ancestors() and sources() have
\* returned their elements.
C23_ParentSetBeforeLastSetOfChild ==
    RunReturned =>
        \A e \in child_of :
            (SetsOf(e[1]) # {} /\ SetsOf(e[2]) # {}) =>
                \E i \in SetsOf(e[2]) : i < LastSetOf(e[1])

\* A run has returned in which a dirty child of a clean parent was pushed
\* below its parent and pushed again when the parent was stored: the parent
\* has been set once, the child twice.
C23_Witness ==
    /\ RunReturned
    /\ \E e \in child_of :
          /\ e[1] \in dirty /\ e[2] \notin dirty
          /\ Cardinality(SetsOf(e[2])) = 1
          /\ Cardinality(SetsOf(e[1])) = 2

(***************************************************************************)
(* The propagation system without a ChildOf graph.                         *)
(***************************************************************************)
NoGraph == "ChildOf" \notin relationships

\* C24: when no ChildOf relationship graph is registered, the propagation
\* system returns from its entry: it never visits, never recomputes and never
\* aborts, and its call changes neither the TransformCache nor the storage,
\* also when the TransformCache resource is absent and Transforms are dirty.
C24_NoGraphIsNoOp ==
    /\ [](NoGraph =>
            /\ prop_pc \in { "off", "returned" }
            /\ panic = "none"
            /\ cache = EmptyCache /\ written = {})
    /\ [][(NoGraph /\ prop_pc' # prop_pc) =>
              UNCHANGED << storage_vars, cache, panic >>]_vars

\* The system has returned on a storage without the graph and without the
\* TransformCache resource, in which a Transform is dirty.
C24_Witness ==
    /\ NoGraph /\ "TransformCache" \notin resources
    /\ prop_pc = "returned" /\ pc = "ecs"
    /\ \E id \in entities : DirtyState(id) /\ Component(id) # None

(***************************************************************************)
(* The FrameRenderingContext across a frame.                               *)
(***************************************************************************)
\* C25: in every update after renderer_init, finish_frame_system finds the
\* three fields of FrameRenderingContext set by begin_frame_system, so none
\* of its three unwraps fails, and the three fields are None whenever the
\* Engine is between two updates.
C25_FrameContextSetThenTaken ==
    /\ panic # FrameCtxUnwrapOnNone
    /\ Running(FinishFrame) => frame_ctx = FrameCtxFields
    /\ pc = "idle" => frame_ctx = {}

\* An update with the renderer has returned after finish_frame_system ran.
C25_Witness ==
    /\ Rendering /\ pc = "idle" /\ panic = "none"
    /\ \E i \in DOMAIN frame_log : frame_log[i] = FinishFrame
    /\ frame_ctx = {}

(***************************************************************************)
(* Entities inserted by the commands of a regular-stage system.            *)
(***************************************************************************)
\* The systems of the three stages of a later update have all run; the drain
\* of its queue has not begun, so pre_next is still the allocation counter at
\* which the drain of the update before began.
PassOver ==
    /\ frame_kind = "later" /\ panic = "none"
    /\ pc = "systems" /\ stage = FinalizeRender
    /\ sys_idx > Len(systems[stage])

\* The alive entity id was inserted by the drain that ended the update before.
InsertedByLastDrain(id) == id \in entities /\ id >= pre_next

\* C26: every entity inserted with a Transform by a command a regular-stage
\* system queued has an entry in TransformCache once the systems of the update
\* that follows the drain of the command have run.
C26_InsertedEntityCachedNextUpdate ==
    PassOver =>
        \A id \in EntityIds :
            (InsertedByLastDrain(id) /\ Component(id) # None) => cache[id] # None

(***************************************************************************)
(* The Transform of the entities the propagation system recomputes.        *)
(***************************************************************************)
\* C27: the propagation system never aborts on a missing Transform: in every
\* storage state reachable through insert and delete commands, the entity at
\* the top of the recompute list has a Transform component, and the unwrap
\* of its component has never failed.
C27_RecomputedEntityHasTransform ==
    /\ panic # UnwrapOnNone
    /\ (prop_pc = "recompute" /\ dirty_transform_entities # << >>) =>
          Component(dirty_transform_entities[Len(dirty_transform_entities)]) # None

(***************************************************************************)
(* The entries of TransformCache and the entities alive.                   *)
(***************************************************************************)
\* C28: after any sequence of frames with insert and delete commands, every
\* id with an entry in TransformCache is the id of an alive entity that has a
\* Transform component: no entry outlives the delete of its entity.
C28_CachedIdsAreAlive ==
    (pc = "idle" /\ panic = "none") =>
        \A id \in EntityIds :
            cache[id] # None => (id \in entities /\ Component(id) # None)

(***************************************************************************)
(* basic-app: the Engine built with init as its init system and driven by  *)
(* WinitTuberRunner::run.  A bundle is the tuple of its components, the    *)
(* Transform first; the Sprite, which no system of the model reads, is     *)
(* left out.  Translations are counted in steps of 0.001, scales in units  *)
(* of 0.1.                                                                 *)
(***************************************************************************)
BasicAppInit == "basic_app::init"
MovePlayer == "move_player"
Player == "Player"
Enemy == "Enemy"
ExpectPlayer == "A player should be present in the scene"

\* The four bundles init inserts, in the order of its queue.insert calls.
InitBundles ==
    << << MkTransform(<<0, 0, 0>>, UnitScale, NoRotation), Player >>,
       << MkTransform(<<-1000, -1000, 0>>, UnitScale, NoRotation), Enemy >>,
       << MkTransform(<<0, 0, 0>>, UnitScale, NoRotation), Enemy >>,
       << MkTransform(<<0, 0, 0>>, UnitScale, NoRotation), Enemy >> >>

\* Those of them the storage of the model has room for.
AppBundles ==
    SubSeq(InitBundles, 1, IF MaxEntities < 4 THEN MaxEntities ELSE 4)

RECURSIVE PushInserts(_, _)
PushInserts(q, bundles) ==
    IF bundles = << >>
    THEN q
    ELSE PushInserts(PushCommand(q, InsertEntityNew(Head(bundles))),
                     Tail(bundles))

\* init, were the Player bundle not inserted.
InitCommandsEnemiesOnly(q) ==
    PushCommand(PushInserts(q, Tail(AppBundles)),
                RegisterSystemNew(Update, MovePlayer))

\* The commands init pushes onto the queue q: the inserts, then
\* register_system(&stages::Update, move_player).
InitCommands(q) ==
    PushCommand(PushInserts(q, AppBundles),
                RegisterSystemNew(Update, MovePlayer))

\* init runs: its body queues its commands.
AppInit ==
    /\ pc = "init_system" /\ init_system = BasicAppInit /\ panic = "none"
    /\ { "AssetStore", "GraphicsState" } \subseteq resources
    /\ issued = << >>
    /\ queue' = InitCommands(queue)
    /\ issued' = InitCommands(issued)
    /\ QueueOnly
    /\ UNCHANGED ops
    /\ UNCHANGED user_frame

\* init returns once its body has run.
AppInitReturn ==
    /\ init_system = BasicAppInit /\ issued # << >>
    /\ InitSystemReturn

\* Q<(&Player, &mut Transform)>: the entities with both components.
QueryPlayer ==
    { id \in entities :
        /\ Len(transform[id]) >= 2
        /\ \E i \in 2 .. Len(transform[id]) : transform[id][i] = Player }

\* The Transform after move_player; the key of the model is Key::W.
Moved(t) ==
    IF "key" \in input_state
    THEN [t EXCEPT !.translation[2] = @ + 1]
    ELSE t

\* move_player: the first entity of the query is expected and moved.
MovePlayerSystem ==
    /\ pc = "system_body" /\ panic = "none"
    /\ systems[stage][sys_idx] = MovePlayer
    /\ IF QueryPlayer = {}
       THEN /\ panic' = ExpectPlayer
            /\ UNCHANGED << transform, dirty, pc, sys_idx >>
       ELSE /\ \E id \in QueryPlayer :
                 /\ "key" \in input_state =>
                        Unwrap(transform[id]).translation[2] < MaxMove
                 /\ transform' =
                        [transform EXCEPT ![id][1] = Moved(Unwrap(transform[id]))]
                 /\ dirty' = dirty \cup {id}
            /\ pc' = "systems"
            /\ sys_idx' = sys_idx + 1
            /\ UNCHANGED panic
    /\ UNCHANGED << entities, next_entity_id, child_of, relationships,
                    resources, cache, prop_vars, hist_vars, ops, init_system,
                    init_system_ran, stage, systems, queue_vars, frame_vars,
                    rest_vars >>

\* WinitTuberRunner::run: init_graphics is awaited before the event loop
\* makes its first call of update.
RunnerUpdate ==
    /\ "GraphicsState" \in resources
    /\ EngineUpdate

InitApp ==
    /\ entities = {}
    /\ transform = NoTransforms
    /\ dirty = {}
    /\ next_entity_id = 0
    /\ child_of = {}
    /\ relationships = {"ChildOf"}
    /\ resources = {"InputState", "TransformCache", "AssetStore"}
    /\ cache = EmptyCache
    /\ prop_pc = "off"
    /\ to_visit = << >>
    /\ dirty_transform_entities = << >>
    /\ panic = "none"
    /\ written = {} /\ write_log = << >> /\ first_cache = NoRun
    /\ runs = 0 /\ ops = 0
    /\ init_system = BasicAppInit
    /\ init_system_ran = FALSE
    /\ pc = "idle" /\ stage = Update /\ sys_idx = 1
    /\ systems = [s \in Stages |->
                    IF s = Render THEN << PropSystem >> ELSE << >>]
    /\ queue = << >> /\ pending = << >>
    /\ frame_kind = "none" /\ frame_log = << >> /\ init_runs = 0
    /\ last_cleared = {} /\ issued = << >> /\ drained = << >>
    /\ pre_entities = {} /\ pre_next = 0
    /\ render_graph = << >> /\ frame_ctx = {} /\ input_state = {}
    /\ cache_calls = << >> /\ got = None

NextApp ==
    \/ EngineInitGraphics
    \/ RunnerUpdate
    \/ EngineOnInput
    \/ EngineInitCheck
    \/ AppInit
    \/ AppInitReturn
    \/ DrainApply
    \/ InitDone
    \/ ScheduleSystem
    \/ MovePlayerSystem
    \/ PropVisit
    \/ PropBorrowCache
    \/ PropRecompute
    \/ PropLeave
    \/ PropSystemReturn
    \/ BeginFrameSystem
    \/ AddClearPassSystem
    \/ AddDrawTrianglePassSystem
    \/ PreparePassesSystem
    \/ FinishFrameSystem
    \/ NextStage
    \/ EndPass
    \/ UpdateReturn

SpecApp == InitApp /\ [][NextApp]_vars

\* move_player is registered in a stage.
Scheduled(sys) ==
    \E st \in Stages : \E i \in DOMAIN systems[st] : systems[st][i] = sys

\* C29: in basic-app the expect of move_player never fails: from the moment
\* move_player is registered an entity with Player and Transform exists, the
\* insert of the Player having been queued before register_system and
\* applied before it in the same drain, and it exists whenever move_player
\* runs.
C29_PlayerPresentForMovePlayer ==
    /\ panic # ExpectPlayer
    /\ Scheduled(MovePlayer) => QueryPlayer # {}
    /\ Running(MovePlayer) => (QueryPlayer # {} /\ init_system_ran)
    /\ pc = "init_drain" =>
          \E i \in DOMAIN issued, j \in DOMAIN issued :
              /\ i < j
              /\ issued[i] = InsertEntityNew(InitBundles[1])
              /\ issued[j] = RegisterSystemNew(Update, MovePlayer)

\* move_player is running in a later update, with the key down, and has
\* already moved the Player in an update before.
C29_Witness ==
    /\ Running(MovePlayer) /\ frame_kind = "later"
    /\ "key" \in input_state
    /\ \E id \in QueryPlayer : Unwrap(transform[id]).translation[2] > 0

(***************************************************************************)
(* Engine::on_input between the updates.                                   *)
(***************************************************************************)
\* Everything but the InputState resource.
all_but_input ==
    << storage_vars, cache, prop_vars, panic, hist_vars, ops, engine_vars,
       systems, queue_vars, frame_vars, render_vars, cache_hist >>

====
